---- MODULE Spec2Model ----
(***************************************************************************)
(* Feed generation of maksugr.com: makeFeedItem (render, rewrite links,    *)
(* sanitize), buildFeed and generateMainFeeds (load posts, add one item    *)
(* per post, create public/feeds/ and write the three feed files).         *)
(*                                                                         *)
(* Markup is a sequence of tokens.  The tokens are cut where the regular   *)
(* expressions of makeFeedItem cut the text: href=" and src=" are one      *)
(* token each, "/" and "#" are tokens of their own, every other token is a *)
(* run of characters holding none of them.  A match of /href="\/#/ is then *)
(* exactly the token sequence <<HREF, "/", "#">>.                          *)
(***************************************************************************)
EXTENDS Integers, Sequences, FiniteSets, TLC

\* ---------------------------------------------------------------- bounds
MaxSegs == 2      \* elements in one generated post body
MaxPosts == 2     \* posts in the content directory
MaxRuns == 2      \* invocations of generateMainFeeds in one behaviour
MaxClock == 2     \* values of the wall clock

\* ---------------------------------------------------------------- tokens
HREF == "href=\""
SRC == "src=\""
Q == "\""
WS == " "

\* BASE_URL is imported from ./constants: the absolute https URL of the
\* site, cut into tokens.
BASE_URL == <<"https:", "/", "/", "maksugr.com">>

VARIABLES
    pc,         \* position of generateMainFeeds
    feed,       \* the Feed object: options and items
    posts,      \* the posts getPosts resolved with
    idx,        \* position of forEach in posts
    error,      \* the error generateMainFeeds rejected with
    source,     \* the content directory: what getPosts finds
    dirExists,  \* public/feeds/ exists
    parentExists, \* public/ exists
    files,      \* content of the three output files
    written,    \* files written by the current invocation
    attempts,   \* filesystem calls attempted by the current invocation
    fsAtStart,  \* dirExists and files when the invocation began
    outs,       \* files at the end of each successful invocation
    now,        \* wall clock
    run,        \* number of the current invocation
    arg,        \* post handed to a direct call of makeFeedItem
    ret         \* what that call returned

vars == <<pc, feed, posts, idx, error, source, dirExists, parentExists, files, written,
          attempts, fsAtStart, outs, now, run, arg, ret>>

\* ------------------------------------------------------- sequence helpers
RECURSIVE Flatten(_)
Flatten(ss) == IF ss = <<>> THEN <<>> ELSE Head(ss) \o Flatten(Tail(ss))

IsPrefix(p, s) == Len(p) <= Len(s) /\ SubSeq(s, 1, Len(p)) = p

Drop(s, n) == SubSeq(s, n + 1, Len(s))

\* String.prototype.replace with a global regular expression that matches
\* the literal pat: matches are found left to right, do not overlap, and the
\* replacement is not scanned again.
RECURSIVE ReplaceFirst(_, _, _)
ReplaceFirst(s, pat, rep) ==
    IF Len(s) < Len(pat) THEN s
    ELSE IF IsPrefix(pat, s) THEN rep \o Drop(s, Len(pat))
    ELSE <<Head(s)>> \o ReplaceFirst(Tail(s), pat, rep)

RECURSIVE ReplaceAll(_, _, _)
ReplaceAll(s, pat, rep) ==
    IF Len(s) < Len(pat) THEN s
    ELSE IF IsPrefix(pat, s) THEN rep \o ReplaceAll(Drop(s, Len(pat)), pat, rep)
    ELSE <<Head(s)>> \o ReplaceAll(Tail(s), pat, rep)


Range(s) == {s[i] : i \in 1..Len(s)}

\* Occurrences of the token sequence pat in s.
Count(s, pat) ==
    Cardinality({i \in 1..(Len(s) - Len(pat) + 1) :
                    SubSeq(s, i, i + Len(pat) - 1) = pat})

\* ------------------------------------------------------- rendered markup
\* What renderToStaticMarkup emits is well formed: every element is closed,
\* attribute values are double quoted, text is escaped.
AnchorTag(value) == <<"<a", WS, HREF>> \o value \o <<Q, ">">>
Anchor(value) == AnchorTag(value) \o <<"link", "</a>">>
Img(value) == <<"<img", WS, SRC>> \o value \o <<Q, "/>">>
ScriptInline == <<"<script", ">", "js", "</script>">>
ScriptSrc(value) == <<"<script", WS, SRC>> \o value \o <<Q, ">", "</script>">>
StyleInline == <<"<style", ">", "css", "</style>">>

FragValue == <<"/", "#", "frag">>
RootValue == <<"/", "path">>
AbsValue == <<"https:", "/", "/", "ext">>
HashValue == <<"#", "frag">>

Elements ==
    { <<"text">>, <<WS>>, <<"&amp;">>,
      Anchor(FragValue), Anchor(RootValue), Anchor(AbsValue), Anchor(HashValue),
      Img(RootValue), Img(FragValue),
      ScriptInline, ScriptSrc(RootValue), StyleInline }

\* <p>See <a href="/#about">about</a></p>
HelloElems ==
    << <<"<p>", "See", WS>>,
       AnchorTag(<<"/", "#", "about">>) \o <<"about", "</a>">>,
       <<"</p>">> >>

SeqsUpTo(S, n) == UNION {[1..k -> S] : k \in 0..n}

Bodies == SeqsUpTo(Elements, MaxSegs) \cup {HelloElems}

Slugs == {"hello-world", "plantuml"}

Metadatas ==
    {[slug |-> s, title |-> m[1], summary |-> "Hi", publishedAt |-> m[2]] :
        s \in Slugs, m \in {<<"Hello", "2022-01-01">>, <<"Other", "2021-06-30">>}}

\* A post whose compiled source cannot be rendered makes
\* renderToStaticMarkup throw.
InputPosts ==
    {[metadata |-> m, mdxSource |-> [elems |-> b, malformed |-> FALSE]] :
        m \in Metadatas, b \in Bodies}
    \cup
    {[metadata |-> m, mdxSource |-> [elems |-> <<>>, malformed |-> TRUE]] :
        m \in Metadatas}

NoPost == [metadata |-> "none"]
NoItem == [title |-> "none"]
Threw == [title |-> "threw"]

\* ----------------------------------------------------------- makeFeedItem
renderToStaticMarkup(mdxSource) == Flatten(mdxSource.elems)

CanonicalURL_fromTitle(post) ==
    BASE_URL \o <<"/", "notes", "/", post.metadata.title>>

CanonicalURL(post) == BASE_URL \o <<"/", "notes", "/", post.metadata.slug>>

\* The three replacements, in the order of the source.
RewriteLinks_rootFirst(markup, url) ==
    ReplaceAll(
        ReplaceAll(
            ReplaceAll(markup, <<HREF, "/">>, <<HREF>> \o BASE_URL \o <<"/">>),
            <<HREF, "/", "#">>, <<HREF>> \o url \o <<"#">>),
        <<SRC, "/">>, <<SRC>> \o BASE_URL \o <<"/">>)

\* The href pattern lacks its slash: /href="/ instead of /href="\//.
RewriteLinks_anyHref(markup, url) ==
    ReplaceAll(
        ReplaceAll(
            ReplaceAll(markup, <<HREF, "/", "#">>, <<HREF>> \o url \o <<"#">>),
            <<HREF>>, <<HREF>> \o BASE_URL \o <<"/">>),
        <<SRC, "/">>, <<SRC>> \o BASE_URL \o <<"/">>)

\* The src pattern lacks its slash: /src="/ instead of /src="\//.
RewriteLinks_anySrc(markup, url) ==
    ReplaceAll(
        ReplaceAll(
            ReplaceAll(markup, <<HREF, "/", "#">>, <<HREF>> \o url \o <<"#">>),
            <<HREF, "/">>, <<HREF>> \o BASE_URL \o <<"/">>),
        <<SRC>>, <<SRC>> \o BASE_URL \o <<"/">>)

RewriteLinks(markup, url) ==
    ReplaceAll(
        ReplaceAll(
            ReplaceAll(markup, <<HREF, "/", "#">>, <<HREF>> \o url \o <<"#">>),
            <<HREF, "/">>, <<HREF>> \o BASE_URL \o <<"/">>),
        <<SRC, "/">>, <<SRC>> \o BASE_URL \o <<"/">>)

htmlContent(post) ==
    RewriteLinks(renderToStaticMarkup(post.mdxSource), CanonicalURL(post))

\* stripHtml of string-strip-html with
\*   onlyStripTags: ['script', 'style'],
\*   stripTogetherWithTheirContents: ['script', 'style'].
\* Only the named tags are touched.  A paired tag goes with everything up to
\* and including its closing tag; an opening tag that is never closed and a
\* stray closing tag go alone.  Where a range was removed, the whitespace
\* around it and the range itself are left as one space ("a <x>..</x> b"
\* gives "a b", "a<x>..</x>b" gives "a b"), and the result is trimmed.
\* skipHtmlDecoding is left at its default, false: the HTML entities of the
\* input are decoded before anything is stripped.
onlyStripTags == {"<script", "<style"}

ClosingTag(open) == IF open = "<script" THEN "</script>" ELSE "</style>"

ClosingTags == {ClosingTag(t) : t \in onlyStripTags}

GAP == "<removed>"

IndexOf(s, t) ==
    IF t \in Range(s)
    THEN CHOOSE i \in 1..Len(s) : s[i] = t /\ \A j \in 1..(i - 1) : s[j] # t
    ELSE 0

\* The tags are removed and what stood between them is kept.
RECURSIVE RemoveRanges_tagsOnly(_)
RemoveRanges_tagsOnly(s) ==
    IF s = <<>> THEN <<>>
    ELSE IF Head(s) \in onlyStripTags
    THEN <<GAP>> \o RemoveRanges_tagsOnly(Drop(s, IndexOf(s, ">")))
    ELSE IF Head(s) \in ClosingTags
    THEN <<GAP>> \o RemoveRanges_tagsOnly(Tail(s))
    ELSE <<Head(s)>> \o RemoveRanges_tagsOnly(Tail(s))

RECURSIVE RemoveRanges(_)
RemoveRanges(s) ==
    IF s = <<>> THEN <<>>
    ELSE IF Head(s) \in onlyStripTags
    THEN LET close == IndexOf(s, ClosingTag(Head(s)))
             tagEnd == IndexOf(s, ">")
         IN  <<GAP>> \o RemoveRanges(Drop(s, IF close > 0 THEN close ELSE tagEnd))
    ELSE IF Head(s) \in ClosingTags
    THEN <<GAP>> \o RemoveRanges(Tail(s))
    ELSE <<Head(s)>> \o RemoveRanges(Tail(s))

\* Length of the longest prefix of s made of tokens of S.
RECURSIVE PrefixIn(_, _)
PrefixIn(s, S) ==
    IF s = <<>> \/ Head(s) \notin S THEN 0 ELSE 1 + PrefixIn(Tail(s), S)

RECURSIVE Collapse(_)
Collapse(s) ==
    IF s = <<>> THEN <<>>
    ELSE LET n == PrefixIn(s, {GAP, WS})
         IN  IF n = 0 THEN <<Head(s)>> \o Collapse(Tail(s))
             ELSE (IF GAP \in Range(SubSeq(s, 1, n)) THEN <<WS>> ELSE SubSeq(s, 1, n))
                  \o Collapse(Drop(s, n))

RECURSIVE TrimStart(_)
TrimStart(s) == IF s # <<>> /\ Head(s) = WS THEN TrimStart(Tail(s)) ELSE s

RECURSIVE TrimEnd(_)
TrimEnd(s) ==
    IF s # <<>> /\ s[Len(s)] = WS THEN TrimEnd(SubSeq(s, 1, Len(s) - 1)) ELSE s

decode(s) == [i \in 1..Len(s) |-> IF s[i] = "&amp;" THEN "&" ELSE s[i]]

stripHtml(s) == TrimEnd(TrimStart(Collapse(RemoveRanges(decode(s)))))

\* parseISO of date-fns on the date-only strings of the front matter.
parseISO(str) ==
    CASE str = "2022-01-01" -> [year |-> 2022, month |-> 1, day |-> 1]
      [] str = "2021-06-30" -> [year |-> 2021, month |-> 6, day |-> 30]
      [] OTHER -> [year |-> 0, month |-> 0, day |-> 0]

\* The markup as rendered is sanitized, not the rewritten one.
cleanHtmlContent_unrewritten(post) ==
    stripHtml(renderToStaticMarkup(post.mdxSource))

cleanHtmlContent(post) == stripHtml(htmlContent(post))

makeFeedItem(post) ==
    [title |-> post.metadata.title,
     id |-> CanonicalURL(post),
     link |-> CanonicalURL(post),
     description |-> post.metadata.summary,
     date |-> parseISO(post.metadata.publishedAt),
     content |-> cleanHtmlContent(post)]

\* A direct call of makeFeedItem: it returns the item, or throws what
\* renderToStaticMarkup throws.
CallMakeFeedItem ==
    /\ arg # NoPost
    /\ ret = NoItem
    /\ \/ /\ ~arg.mdxSource.malformed
          /\ ret' = makeFeedItem(arg)
       \/ /\ arg.mdxSource.malformed
          /\ ret' = Threw
    /\ UNCHANGED <<pc, feed, posts, idx, error, source, dirExists, parentExists, files,
                   written, attempts, fsAtStart, outs, now, run, arg>>

\* -------------------------------------------------------------- buildFeed
NoFeed == [options |-> [title |-> "none"], items |-> <<>>]

\* The Atom and the RSS link name each other's file.
feedLinks_swapped ==
    [json |-> BASE_URL \o <<"/", "feeds", "/", "feed.json">>,
     atom |-> BASE_URL \o <<"/", "feeds", "/", "feed.xml">>,
     rss2 |-> BASE_URL \o <<"/", "feeds", "/", "atom.xml">>]

feedLinks ==
    [json |-> BASE_URL \o <<"/", "feeds", "/", "feed.json">>,
     atom |-> BASE_URL \o <<"/", "feeds", "/", "atom.xml">>,
     rss2 |-> BASE_URL \o <<"/", "feeds", "/", "feed.xml">>]

buildFeed ==
    [options |->
        [title |-> "DEFAULT_TITLE",
         description |-> "DEFAULT_DESCRIPTION",
         id |-> BASE_URL,
         link |-> BASE_URL,
         language |-> "en",
         image |-> BASE_URL \o <<"/", "og", "/", "image.png">>,
         favicon |-> BASE_URL \o <<"/", "favicons", "/", "favicon.ico">>,
         copyright |-> "COPYRIGHT",
         generator |-> "NextJS + feed package",
         feedLinks |-> feedLinks,
         author |->
            [name |-> "AUTHOR_NAME", email |-> "AUTHOR_EMAIL", link |-> BASE_URL]],
     items |-> <<>>]

\* Feed.addItem pushes the item.
addItem_unshift(f, item) == [f EXCEPT !.items = <<item>> \o @]

addItem(f, item) == [f EXCEPT !.items = Append(@, item)]

\* The serializers of the feed package stamp the document with
\* options.updated when the options carry it and with the current time when
\* they do not: lastBuildDate in RSS 2.0, updated in Atom 1.0.  JSON Feed
\* carries no such stamp.
Updated(options, t) ==
    IF "updated" \in DOMAIN options THEN options.updated ELSE t

rss2(f, t) ==
    [format |-> "rss2", channel |-> f.options,
     lastBuildDate |-> Updated(f.options, t), items |-> f.items]

json1(f) == [format |-> "json1", channel |-> f.options, items |-> f.items]

atom1(f, t) ==
    [format |-> "atom1", channel |-> f.options,
     updated |-> Updated(f.options, t), items |-> f.items]

\* ------------------------------------------------------ generateMainFeeds
FileNames == {"feed.xml", "feed.json", "atom.xml"}

\* The path handed to writeFileSync, and the path under which the site
\* serves that file: public/ is the root of the site.
OutputPath(name) == <<"public", "/", "feeds", "/", name>>

PublicPath(name) == Tail(OutputPath(name))

\* The alternate links of the page head, by feed format:
\* application/rss+xml, application/atom+xml, application/feed+json.
MetaAlternateLinks ==
    [rss2 |-> <<"/", "feeds", "/", "feed.xml">>,
     atom |-> <<"/", "feeds", "/", "atom.xml">>,
     json |-> <<"/", "feeds", "/", "feed.json">>]

Absent == [format |-> "absent"]
Stale == [format |-> "stale"]

\* The RSS and the Atom documents go to each other's path.
Serialized_swapped(name, f, t) ==
    CASE name = "feed.xml" -> atom1(f, t)
      [] name = "feed.json" -> json1(f)
      [] name = "atom.xml" -> rss2(f, t)

Serialized(name, f, t) ==
    CASE name = "feed.xml" -> rss2(f, t)
      [] name = "feed.json" -> json1(f)
      [] name = "atom.xml" -> atom1(f, t)

NextStep(name) ==
    CASE name = "feed.xml" -> "feed.json"
      [] name = "feed.json" -> "atom.xml"
      [] name = "atom.xml" -> "done"

\* The content directory: posts with distinct slugs, in the order getPosts
\* enumerates them.
HelloPost ==
    [metadata |-> [slug |-> "hello-world", title |-> "Hello", summary |-> "Hi",
                   publishedAt |-> "2022-01-01"],
     mdxSource |-> [elems |-> HelloElems, malformed |-> FALSE]]

ScriptPost ==
    [metadata |-> [slug |-> "plantuml", title |-> "Other", summary |-> "Hi",
                   publishedAt |-> "2021-06-30"],
     mdxSource |-> [elems |-> <<<<"text">>, ScriptInline, Anchor(RootValue)>>,
                    malformed |-> FALSE]]

BrokenPost ==
    [metadata |-> [slug |-> "draft", title |-> "Draft", summary |-> "Hi",
                   publishedAt |-> "2022-01-01"],
     mdxSource |-> [elems |-> <<>>, malformed |-> TRUE]]

PostPool == {HelloPost, ScriptPost, BrokenPost}

Sources ==
    {s \in SeqsUpTo(PostPool, MaxPosts) :
        \A i, j \in 1..Len(s) : i # j => s[i] # s[j]}

HasMalformed(ps) == \E i \in 1..Len(ps) : ps[i].mdxSource.malformed

Init ==
    /\ pc = "idle"
    /\ feed = NoFeed
    /\ posts = <<>>
    /\ idx = 1
    /\ error = "none"
    /\ source \in Sources
    /\ parentExists \in BOOLEAN
    /\ dirExists \in IF parentExists THEN BOOLEAN ELSE {FALSE}
    /\ files \in {[n \in FileNames |-> Absent]}
                 \cup (IF dirExists THEN {[n \in FileNames |-> Stale]} ELSE {})
    /\ written = {}
    /\ attempts = <<>>
    /\ fsAtStart = [dir |-> dirExists, parent |-> parentExists, files |-> files]
    /\ outs = <<>>
    /\ now = 1
    /\ run = 1
    /\ arg = NoPost
    /\ ret = NoItem

\* The directory is made at the top of the function, before the await.
BuildFeed_mkdirFirst ==
    /\ pc = "idle"
    /\ feed' = buildFeed
    /\ pc' = "getPosts"
    /\ dirExists' = TRUE
    /\ parentExists' = TRUE
    /\ attempts' = Append(attempts, "mkdir")
    /\ UNCHANGED <<posts, idx, error, source, files, written, fsAtStart, outs,
                   now, run, arg, ret>>

\* const feed = buildFeed();
BuildFeed ==
    /\ pc = "idle"
    /\ feed' = buildFeed
    /\ pc' = "getPosts"
    /\ UNCHANGED <<posts, idx, error, source, dirExists, parentExists, files, written,
                   attempts, fsAtStart, outs, now, run, arg, ret>>

\* An empty collection ends the run at once.
GetPostsResolve_emptyReturns ==
    /\ pc = "getPosts"
    /\ posts' = source
    /\ idx' = 1
    /\ pc' = IF source = <<>> THEN "done" ELSE "forEach"
    /\ UNCHANGED <<feed, error, source, dirExists, parentExists, files, written, attempts,
                   fsAtStart, outs, now, run, arg, ret>>

\* const posts = await getPosts('notes');  -- the promise resolves
GetPostsResolve ==
    /\ pc = "getPosts"
    /\ posts' = source
    /\ idx' = 1
    /\ pc' = "forEach"
    /\ UNCHANGED <<feed, error, source, dirExists, parentExists, files, written, attempts,
                   fsAtStart, outs, now, run, arg, ret>>

\* const posts = await getPosts('notes');  -- the promise rejects
GetPostsReject ==
    /\ pc = "getPosts"
    /\ error' = "getPosts"
    /\ pc' = "failed"
    /\ UNCHANGED <<feed, posts, idx, source, dirExists, parentExists, files, written,
                   attempts, fsAtStart, outs, now, run, arg, ret>>

\* One round of posts.forEach: the item is made and added.
ForEachItem ==
    /\ pc = "forEach"
    /\ idx <= Len(posts)
    /\ ~posts[idx].mdxSource.malformed
    /\ feed' = addItem(feed, makeFeedItem(posts[idx]))
    /\ idx' = idx + 1
    /\ UNCHANGED <<pc, posts, error, source, dirExists, parentExists, files, written,
                   attempts, fsAtStart, outs, now, run, arg, ret>>

\* The malformed post is skipped and the loop goes on.
ForEachThrow_skip ==
    /\ pc = "forEach"
    /\ idx <= Len(posts)
    /\ posts[idx].mdxSource.malformed
    /\ idx' = idx + 1
    /\ UNCHANGED <<pc, feed, posts, error, source, dirExists, parentExists, files, written,
                   attempts, fsAtStart, outs, now, run, arg, ret>>

\* One round of posts.forEach: makeFeedItem throws, and nothing catches it.
ForEachThrow ==
    /\ pc = "forEach"
    /\ idx <= Len(posts)
    /\ posts[idx].mdxSource.malformed
    /\ error' = "render"
    /\ pc' = "failed"
    /\ UNCHANGED <<feed, posts, idx, source, dirExists, parentExists, files, written,
                   attempts, fsAtStart, outs, now, run, arg, ret>>

\* fs.mkdirSync('public/feeds/', { recursive: true }).  Without recursive
\* the call throws EEXIST on an existing directory and ENOENT on a missing
\* parent; with it neither is an error and the missing ancestors are
\* created.  Any call can throw for other reasons (permissions, a full disk).
mkdirRecursive_false == FALSE

mkdirRecursive == TRUE

MkdirErrors(exists, parent, recursive) ==
    IF recursive THEN {}
    ELSE IF exists THEN {"EEXIST"}
    ELSE IF ~parent THEN {"ENOENT"}
    ELSE {}

Mkdir ==
    /\ pc = "forEach"
    /\ idx > Len(posts)
    /\ attempts' = Append(attempts, "mkdir")
    /\ \/ /\ MkdirErrors(dirExists, parentExists, mkdirRecursive) = {}
          /\ dirExists' = TRUE
          /\ parentExists' = TRUE
          /\ pc' = "feed.xml"
          /\ UNCHANGED error
       \/ /\ error' \in MkdirErrors(dirExists, parentExists, mkdirRecursive)
                         \cup {"mkdir"}
          /\ pc' = "failed"
          /\ UNCHANGED <<dirExists, parentExists>>
    /\ UNCHANGED <<feed, posts, idx, source, files, written, fsAtStart, outs,
                   now, run, arg, ret>>

\* fs.writeFileSync('public/feeds/<name>', <serialization>), in the order
\* feed.xml, feed.json, atom.xml.
\* A failed write is noted and the next file is written all the same.
WriteFile_continue(name) ==
    /\ pc = name
    /\ attempts' = Append(attempts, name)
    /\ pc' = NextStep(name)
    /\ \/ /\ dirExists
          /\ files' = [files EXCEPT ![name] = Serialized(name, feed, now)]
          /\ written' = written \cup {name}
          /\ outs' = IF NextStep(name) = "done" THEN Append(outs, files') ELSE outs
          /\ UNCHANGED error
       \/ /\ error' = "write"
          /\ UNCHANGED <<files, written, outs>>
    /\ UNCHANGED <<feed, posts, idx, source, dirExists, parentExists,
                   fsAtStart, now, run, arg, ret>>

WriteFile(name) ==
    /\ pc = name
    /\ attempts' = Append(attempts, name)
    /\ \/ /\ dirExists
          /\ files' = [files EXCEPT ![name] = Serialized(name, feed, now)]
          /\ written' = written \cup {name}
          /\ pc' = NextStep(name)
          /\ outs' = IF NextStep(name) = "done" THEN Append(outs, files') ELSE outs
          /\ UNCHANGED error
       \/ /\ error' = "write"
          /\ pc' = "failed"
          /\ UNCHANGED <<files, written, outs>>
    /\ UNCHANGED <<feed, posts, idx, source, dirExists, parentExists, fsAtStart, now, run,
                   arg, ret>>

WriteFeedXml == WriteFile("feed.xml")

WriteFeedJson == WriteFile("feed.json")

WriteAtomXml == WriteFile("atom.xml")

\* Time passes.
Tick ==
    /\ now < MaxClock
    /\ now' = now + 1
    /\ UNCHANGED <<pc, feed, posts, idx, error, source, dirExists, parentExists, files,
                   written, attempts, fsAtStart, outs, run, arg, ret>>

\* The build is run again over the same content directory.
Rerun ==
    /\ pc \in {"done", "failed"}
    /\ run < MaxRuns
    /\ run' = run + 1
    /\ pc' = "idle"
    /\ feed' = NoFeed
    /\ posts' = <<>>
    /\ idx' = 1
    /\ error' = "none"
    /\ written' = {}
    /\ attempts' = <<>>
    /\ fsAtStart' = [dir |-> dirExists, parent |-> parentExists, files |-> files]
    /\ UNCHANGED <<source, dirExists, parentExists, files, outs, now, arg, ret>>

Next ==
    \/ BuildFeed
    \/ GetPostsResolve
    \/ GetPostsReject
    \/ ForEachItem
    \/ ForEachThrow
    \/ Mkdir
    \/ WriteFeedXml
    \/ WriteFeedJson
    \/ WriteAtomXml
    \/ Tick
    \/ Rerun

Spec == Init /\ [][Next]_vars

\* makeFeedItem called on its own, on every post of InputPosts.
InitItem ==
    /\ pc = "idle"
    /\ feed = NoFeed
    /\ posts = <<>>
    /\ idx = 1
    /\ error = "none"
    /\ source = <<>>
    /\ dirExists = FALSE
    /\ parentExists = FALSE
    /\ files = [n \in FileNames |-> Absent]
    /\ written = {}
    /\ attempts = <<>>
    /\ fsAtStart = [dir |-> FALSE, parent |-> FALSE, files |-> files]
    /\ outs = <<>>
    /\ now = 1
    /\ run = 1
    /\ arg \in InputPosts
    /\ ret = NoItem

NextItem == CallMakeFeedItem

SpecItem == InitItem /\ [][NextItem]_vars

\* ------------------------------------------------------------ properties
Returned == ret \notin {NoItem, Threw}

ArgURL == BASE_URL \o <<"/", "notes", "/", arg.metadata.slug>>

ArgMarkup == Flatten(arg.mdxSource.elems)

\* C1: the item made for a post has id = link = BASE_URL/notes/<slug>,
\* whatever the post's title, date and body.
C1_IdAndLinkAreCanonicalURL ==
    Returned =>
        /\ ret.id = ret.link
        /\ ret.id = BASE_URL \o <<"/", "notes", "/", arg.metadata.slug>>

C1_Witness ==
    /\ Returned
    /\ arg.metadata.slug = "plantuml"
    /\ arg.metadata.title = "Hello"
    /\ arg.mdxSource.elems # <<>>

\* C2: the content of the item holds no script or style tag and none of the
\* text that stood between such tags.
C2_NoScriptOrStyle ==
    Returned =>
        Range(ret.content)
            \cap {"<script", "</script>", "<style", "</style>", "js", "css"} = {}

C2_Witness ==
    /\ Returned
    /\ \E i, j \in 1..Len(arg.mdxSource.elems) :
            /\ arg.mdxSource.elems[i] \in {ScriptInline, StyleInline}
            /\ arg.mdxSource.elems[j] = <<"text">>
    /\ ret.content = <<"text">>

Frags == {"frag", "about"}

\* C3: every href="/#f" of the rendered markup is href="<canonical URL>#f"
\* in the content, and nothing of the form href="/# is left; a link that
\* the later replacements had prefixed again would not have that form.
C3_FragmentLinksRewritten ==
    Returned =>
        /\ \A f \in Frags :
              Count(ret.content, <<HREF>> \o ArgURL \o <<"#", f, Q>>)
                  = Count(ArgMarkup, <<HREF, "/", "#", f, Q>>)
        /\ Count(ret.content, <<HREF, "/", "#">>) = 0

C3_Witness ==
    /\ Returned
    /\ Count(ArgMarkup, <<HREF, "/", "#", "frag", Q>>) = 2
    /\ Count(ret.content, <<HREF>> \o ArgURL \o <<"#", "frag", Q>>) = 2

\* C4: every href and src value that begins with "/" (an href beginning
\* with "/#" aside) carries BASE_URL in the content, each occurrence of it,
\* and no href="/ or src="/ is left.
C4_RootRelativePrefixed ==
    Returned =>
        /\ Count(ret.content, AnchorTag(BASE_URL \o RootValue))
              = Count(ArgMarkup, AnchorTag(RootValue))
        /\ \A v \in {RootValue, FragValue} :
              Count(ret.content, Img(BASE_URL \o v)) = Count(ArgMarkup, Img(v))
        /\ Count(ret.content, <<HREF, "/">>) = 0
        /\ Count(ret.content, <<SRC, "/">>) = 0

C4_Witness ==
    /\ Returned
    /\ \/ Count(ArgMarkup, AnchorTag(RootValue)) = 2
       \/ Count(ArgMarkup, Img(RootValue)) = 2
    /\ Count(ret.content, BASE_URL \o RootValue) = 2

\* C5: the post "hello-world" with body <p>See <a href="/#about">about</a></p>
\* gives exactly <p>See <a href="BASE_URL/notes/hello-world#about">about</a></p>
\* and link = id = BASE_URL/notes/hello-world.
C5_HelloWorldScenario ==
    (Returned /\ arg.metadata.slug = "hello-world"
              /\ arg.mdxSource.elems = HelloElems) =>
        /\ ret.content =
              <<"<p>", "See", " ", "<a", " ", "href=\"">>
              \o BASE_URL \o <<"/", "notes", "/", "hello-world", "#", "about">>
              \o <<"\"", ">", "about", "</a>", "</p>">>
        /\ ret.link = BASE_URL \o <<"/", "notes", "/", "hello-world">>
        /\ ret.id = ret.link

C5_Witness ==
    /\ Returned
    /\ arg.metadata.slug = "hello-world"
    /\ arg.metadata.title = "Hello"
    /\ arg.metadata.publishedAt = "2022-01-01"
    /\ arg.mdxSource.elems = HelloElems

WrittenThisRun(n) == \E t \in 1..MaxClock : files[n] = Serialized(n, feed, t)

\* C6: with no posts the run does not fail on that account: forEach does
\* nothing, the directory step follows, and a run that ends well has created
\* the directory and written the three files from a feed without items.
C6_EmptyCollection ==
    /\ (pc = "forEach" /\ posts = <<>>) => ENABLED Mkdir
    /\ (pc = "failed" /\ source = <<>>) => error \in {"getPosts", "mkdir", "write"}
    /\ (pc = "done" /\ source = <<>>) =>
          /\ dirExists
          /\ written = FileNames
          /\ feed.items = <<>>
          /\ \A n \in FileNames :
                /\ WrittenThisRun(n)
                /\ files[n].items = <<>>

C6_Witness ==
    /\ pc = "done"
    /\ source = <<>>
    /\ ~fsAtStart.dir
    /\ dirExists
    /\ \A n \in FileNames : files[n].format \in {"rss2", "json1", "atom1"}

\* C7: two runs over the same posts and the same constants leave the same
\* three files.
C7_Deterministic ==
    \A i, j \in 1..Len(outs) : outs[i] = outs[j]

\* C8: when a run has ended, it has written all three files or none.
C8_AllOrNothing ==
    pc \in {"done", "failed"} => written \in {{}, FileNames}

\* C9: when getPosts fails, or one post (at any place) cannot be rendered,
\* the run fails with that error and has not touched the file system: no
\* directory step, no write, no feed from the items made so far.
C9_FailFast ==
    /\ (pc = "failed" /\ error \in {"getPosts", "render"}) =>
          /\ dirExists = fsAtStart.dir
          /\ parentExists = fsAtStart.parent
          /\ files = fsAtStart.files
          /\ written = {}
          /\ attempts = <<>>
    /\ HasMalformed(posts) =>
          /\ pc \in {"forEach", "failed"}
          /\ attempts = <<>>
          /\ pc = "failed" => error = "render"
    /\ (pc = "forEach" /\ idx <= Len(posts) /\ posts[idx].mdxSource.malformed)
          => ~ENABLED Mkdir

C9_Witness ==
    /\ pc = "failed"
    /\ error = "render"
    /\ idx = 2
    /\ Len(feed.items) = 1
    /\ ~dirExists

\* C10: the items of the feed are the items of the posts handled so far, in
\* the order of the posts; when the feed is serialized that is one item per
\* post, item i made from post i.
C10_ItemsFollowPosts ==
    /\ Len(feed.items) = idx - 1
    /\ idx - 1 <= Len(posts)
    /\ \A i \in 1..Len(feed.items) : feed.items[i] = makeFeedItem(posts[i])
    /\ pc \in FileNames \cup {"done"} => Len(feed.items) = Len(posts)

C10_Witness ==
    /\ pc = "feed.json"
    /\ Len(posts) = 2
    /\ Len(feed.items) = 2
    /\ feed.items[1] # feed.items[2]

AllItems == [i \in 1..Len(posts) |-> makeFeedItem(posts[i])]

\* C11: after a successful run feed.xml holds the RSS 2.0, atom.xml the
\* Atom 1.0 and feed.json the JSON Feed document of the one feed with all
\* its items, whatever the files held before; the run made one directory call
\* and wrote each of the three paths once, and no other.
C11_OutputFiles ==
    pc = "done" =>
        /\ files["feed.xml"].format = "rss2"
        /\ files["atom.xml"].format = "atom1"
        /\ files["feed.json"].format = "json1"
        /\ \A n \in FileNames :
              /\ files[n].items = AllItems
              /\ files[n].channel = buildFeed.options
        /\ attempts = <<"mkdir", "feed.xml", "feed.json", "atom.xml">>
        /\ written = FileNames

C11_Witness ==
    /\ pc = "done"
    /\ Len(posts) = 2
    /\ \A n \in FileNames : fsAtStart.files[n] = Stale
    /\ \A n \in FileNames : Len(files[n].items) = 2

\* C12: the directory call comes before every write and no write happens
\* while public/feeds/ is missing; the call can succeed whether the
\* directory or its parent is missing or the directory is already there, and
\* it never fails for the directory existing or the parent missing.
C12_DirectoryBeforeWrites ==
    /\ attempts # <<>> => attempts[1] = "mkdir"
    /\ pc \in FileNames => dirExists /\ parentExists
    /\ written # {} => dirExists
    /\ (pc = "forEach" /\ idx > Len(posts)) => ENABLED (Mkdir /\ pc' = "feed.xml")
    /\ error \notin {"EEXIST", "ENOENT"}

C12_Witness ==
    /\ run = 2
    /\ outs # <<>>
    /\ fsAtStart.dir
    /\ pc = "feed.xml"
    /\ attempts = <<"mkdir">>

LinkKey(format) ==
    CASE format = "rss2" -> "rss2"
      [] format = "atom1" -> "atom"
      [] format = "json1" -> "json"

\* C13: the channel has one alternate link for each of json, atom and rss2;
\* each is BASE_URL followed by the public path of the file written in that
\* format, which is also the path the page head advertises for the format.
C13_FeedLinksMatchFiles ==
    feed # NoFeed =>
        /\ DOMAIN feed.options.feedLinks = {"json", "atom", "rss2"}
        /\ \A n \in FileNames :
              feed.options.feedLinks[LinkKey(Serialized(n, feed, now).format)]
                  = BASE_URL \o PublicPath(n)
        /\ \A k \in DOMAIN MetaAlternateLinks :
              feed.options.feedLinks[k] = BASE_URL \o MetaAlternateLinks[k]
        /\ \A n \in written :
              files[n].channel.feedLinks[LinkKey(files[n].format)]
                  = BASE_URL \o PublicPath(n)

C13_Witness ==
    /\ pc = "done"
    /\ written = FileNames
    /\ files["atom.xml"].format = "atom1"
    /\ files["atom.xml"].channel.feedLinks.atom
          = BASE_URL \o <<"/", "feeds", "/", "atom.xml">>

Retrieving ==
    \/ pc \in {"idle", "getPosts"}
    \/ pc = "failed" /\ error = "getPosts"

\* C14: nothing of feed assembly, the construction of the channel included,
\* happens before the awaited getPosts call has resolved.
C14_NothingBeforeGetPosts ==
    Retrieving =>
        /\ feed = NoFeed
        /\ attempts = <<>>
        /\ written = {}

\* C14, amended: the empty channel is constructed before getPosts is called;
\* apart from that nothing of feed assembly happens until the call has
\* resolved: no item is added, no directory or file is written, and forEach
\* starts with the whole collection.
C14_OnlyChannelBeforeGetPosts ==
    /\ Retrieving =>
          /\ feed \in {NoFeed, buildFeed}
          /\ feed.items = <<>>
          /\ attempts = <<>>
          /\ written = {}
          /\ dirExists = fsAtStart.dir
          /\ parentExists = fsAtStart.parent
          /\ files = fsAtStart.files
    /\ (~Retrieving) => posts = source

C14_Witness ==
    /\ pc = "getPosts"
    /\ feed = buildFeed
    /\ source # <<>>
    /\ posts = <<>>

\* C15: in one invocation the directory call and each write are attempted
\* at most once; when one of them fails the run ends with that error, the
\* failed call being the last file-system call of the invocation.
C15_NoRetry ==
    /\ \A i, j \in 1..Len(attempts) : i # j => attempts[i] # attempts[j]
    /\ error \in {"mkdir", "write"} =>
          /\ pc = "failed"
          /\ attempts # <<>>
          /\ attempts[Len(attempts)] \notin written
          /\ written = {attempts[i] : i \in 1..(Len(attempts) - 1)} \ {"mkdir"}
    /\ pc = "failed" =>
          /\ ~ENABLED Mkdir
          /\ ~ENABLED WriteFeedXml
          /\ ~ENABLED WriteFeedJson
          /\ ~ENABLED WriteAtomXml

C15_Witness ==
    /\ pc = "failed"
    /\ error = "write"
    /\ attempts = <<"mkdir", "feed.xml", "feed.json">>
    /\ written = {"feed.xml"}

NotGap(t) == t # GAP

\* C16: sanitizing removes the script and style elements and changes nothing
\* else: the content is the rewritten markup without those elements, token
\* for token, and is the rewritten markup itself when it holds none.
C16_OnlyScriptAndStyleRemoved ==
    Returned => ret.content = SelectSeq(RemoveRanges(htmlContent(arg)), NotGap)

\* C17: both rules hold for href and for src: a value /#f becomes
\* <canonical URL>#f and any other value /p becomes BASE_URL/p, in an href
\* and in a src alike.
C17_BothRulesForHrefAndSrc ==
    Returned =>
        /\ Count(htmlContent(arg), AnchorTag(ArgURL \o HashValue))
              = Count(ArgMarkup, AnchorTag(FragValue))
        /\ Count(htmlContent(arg), Img(ArgURL \o HashValue))
              = Count(ArgMarkup, Img(FragValue))
        /\ Count(htmlContent(arg), AnchorTag(BASE_URL \o RootValue))
              = Count(ArgMarkup, AnchorTag(RootValue))
        /\ Count(htmlContent(arg), Img(BASE_URL \o RootValue))
              = Count(ArgMarkup, Img(RootValue))

\* What rewriting is to do to one attribute value.
ExpectedValue(attr, v, url) ==
    IF attr = HREF /\ IsPrefix(<<"/", "#">>, v) THEN url \o Tail(v)
    ELSE IF IsPrefix(<<"/">>, v) THEN BASE_URL \o v
    ELSE v

AttrAt(e) == IF HREF \in Range(e) THEN IndexOf(e, HREF) ELSE IndexOf(e, SRC)

ExpectedElem(e, url) ==
    LET i == AttrAt(e)
        j == IndexOf(e, Q)
    IN  IF i = 0 THEN e
        ELSE SubSeq(e, 1, i)
             \o ExpectedValue(e[i], SubSeq(e, i + 1, j - 1), url)
             \o SubSeq(e, j, Len(e))

\* C18: rewriting leaves every href and src value that does not begin with
\* "/" as it is and changes nothing outside the values of those attributes:
\* the rewritten markup is the rendered one with each value /#f of an href
\* led by the canonical URL and each other value /p led by BASE_URL.
C18_RewritingChangesOnlyRootRelativeValues ==
    Returned =>
        htmlContent(arg) =
            Flatten([i \in 1..Len(arg.mdxSource.elems) |->
                        ExpectedElem(arg.mdxSource.elems[i], ArgURL)])

C18_Witness ==
    /\ Returned
    /\ \E i, j \in 1..Len(arg.mdxSource.elems) :
          /\ arg.mdxSource.elems[i] = Anchor(AbsValue)
          /\ arg.mdxSource.elems[j] = Anchor(RootValue)
    /\ Count(htmlContent(arg), AnchorTag(AbsValue)) = 1
    /\ Count(htmlContent(arg), AnchorTag(BASE_URL \o RootValue)) = 1

\* C19: with an absolute BASE_URL the three replacements applied to markup
\* that is already rewritten give it back unchanged.
C19_RewritingIdempotent ==
    Returned =>
        RewriteLinks(htmlContent(arg), CanonicalURL(arg)) = htmlContent(arg)

C19_Witness ==
    /\ Returned
    /\ Count(ArgMarkup, AnchorTag(FragValue)) = 1
    /\ Count(ArgMarkup, Img(RootValue)) = 1
    /\ htmlContent(arg) # ArgMarkup
    /\ Count(htmlContent(arg), BASE_URL) = 2

====
